---- MODULE Spec2Model ----
(***************************************************************************)
(* Model of CNameCache (src/names/common.cpp): the in-memory overlay of    *)
(* name registrations, deletions, name history and the expiration index,   *)
(* its merge into another cache layer and its flush into the UNO trie.     *)
(***************************************************************************)
EXTENDS Integers, Sequences, FiniteSets, TLC

(* ------------------------------------------------------------------ *)
(* Bounds of the model.                                                 *)
(* ------------------------------------------------------------------ *)

\* Largest byte value used in a name (names are byte vectors).
MaxByte == 0
\* Number of distinct CNameData values.
MaxRecord == 2
\* Largest block height used as an expiration height.
MaxHeight == 3
\* Number of mutating calls (set, remove, setHistory, addExpireIndex,
\* removeExpireIndex) made in one behaviour of Spec, SpecFlush, SpecReplay
\* and SpecStack.
MaxOps == 3
\* Number of mutating calls made in one behaviour of SpecLayers and
\* SpecMerge.
MaxLayerOps == 2
\* Number of addExpireIndex / removeExpireIndex calls made in one behaviour
\* of SpecExpire.
MaxExpireOps == 2
\* Number of set / remove calls made on each layer in SpecOrder.
MaxMuts == 2

(* ------------------------------------------------------------------ *)
(* Value domains.                                                       *)
(* ------------------------------------------------------------------ *)

\* valtype: the empty name and the one-byte names.
Names == {<< >>} \cup {<<b>> : b \in 0..MaxByte}

\* CNameData values, opaque to the cache.
Records == 1..MaxRecord

\* A default-constructed CNameData / CNameHistory in the caller's hands.
NoData == 0

\* CNameHistory values: the empty history and a history of one record.
Logs == {<< >>, <<1>>}

Heights == 1..MaxHeight

\* The lowest and the highest height: the expiration heights used where the
\* index is only carried along (Spec, SpecLayers).
EdgeHeights == {1, MaxHeight}

\* The cache layers of the model: a working layer ("child"), the layer below
\* it ("parent"), a layer stacked on the working layer ("top") and a second
\* layer below ("twin") that is given the same calls as "parent".
Layers == {"child", "parent", "top", "twin"}

\* ExpireEntry (nHeight, name)
ExpireEntry(h, name) == [nHeight |-> h, name |-> name]

ExpireEntries == {ExpireEntry(h, n) : h \in Heights, n \in Names}

\* An empty std::map.
EmptyMap == [x \in {} |-> x]

\* A freshly constructed CNameCache.
EmptyCache ==
  [entries |-> EmptyMap, deleted |-> {}, history |-> EmptyMap,
   expireIndex |-> EmptyMap]

(* ------------------------------------------------------------------ *)
(* Orderings of the containers.                                         *)
(* ------------------------------------------------------------------ *)

\* std::vector<unsigned char>::operator< : lexicographic on bytes, a proper
\* prefix is smaller.  This is the key order of entries, deleted, history.
RECURSIVE NameLess(_, _)
NameLess(a, b) ==
  IF b = << >> THEN FALSE
  ELSE IF a = << >> THEN TRUE
  ELSE IF Head(a) < Head(b) THEN TRUE
  ELSE IF Head(b) < Head(a) THEN FALSE
  ELSE NameLess(Tail(a), Tail(b))

\* ExpireEntry::operator< : by height, then by name.
ExpireLess(a, b) ==
  IF a.nHeight # b.nHeight THEN a.nHeight < b.nHeight
  ELSE NameLess(a.name, b.name)

\* The keys from the greatest to the smallest.
RECURSIVE NameOrderDescending(_)
NameOrderDescending(S) ==
  IF S = {} THEN << >>
  ELSE LET m == CHOOSE x \in S : \A y \in S \ {x} : NameLess(y, x)
       IN  <<m>> \o NameOrderDescending(S \ {m})

\* Iteration of a std::set<valtype> / the keys of a std::map<valtype, T>
\* from begin() to end().
RECURSIVE NameOrder(_)
NameOrder(S) ==
  IF S = {} THEN << >>
  ELSE LET m == CHOOSE x \in S : \A y \in S \ {x} : NameLess(x, y)
       IN  <<m>> \o NameOrder(S \ {m})

\* Iteration of the keys of a std::map<ExpireEntry, bool>.
RECURSIVE ExpireOrder(_)
ExpireOrder(S) ==
  IF S = {} THEN << >>
  ELSE LET m == CHOOSE x \in S : \A y \in S \ {x} : ExpireLess(x, y)
       IN  <<m>> \o ExpireOrder(S \ {m})

\* map[key] = value, for a key present or not.
MapPut(m, k, v) == (k :> v) @@ m

\* map.erase (key)
MapErase(m, k) == [x \in DOMAIN m \ {k} |-> m[x]]

(* ------------------------------------------------------------------ *)
(* State.                                                               *)
(* ------------------------------------------------------------------ *)

VARIABLES
  cache,         \* cache[l]: the CNameCache object of layer l
  fNameHistory,  \* the global history-tracking flag
  failed,        \* an assert has failed: the process is aborted
  last,          \* the call made last: callee, arguments, result, and the
                 \* names the callee (for a merge: the target) held before
  nOps,          \* number of mutating calls made so far
  issued,        \* issued[l][e]: the addExpireIndex / removeExpireIndex
                 \* calls made on layer l for the entry e, oldest first
                 \* (kept in SpecExpire and SpecMerge)
  calls          \* calls[l]: the set / remove calls the caller made on
                 \* layer l since its construction, oldest first (kept in
                 \* SpecLayers, SpecMerge and SpecOrder)

vars == <<cache, fNameHistory, failed, last, nOps, issued, calls>>

(* ------------------------------------------------------------------ *)
(* The methods of CNameCache, as functions of the object's state.       *)
(* ------------------------------------------------------------------ *)

\* CNameCache::get: looks only in entries; data is the caller's out value.
get(c, name, data) ==
  IF name \notin DOMAIN c.entries
  THEN [found |-> FALSE, data |-> data]
  ELSE [found |-> TRUE, data |-> c.entries[name]]

\* CNameCache::getHistory: asserts the flag, then looks in history.
getHistory(c, name, res) ==
  IF ~fNameHistory
  THEN [ok |-> FALSE, found |-> FALSE, data |-> res]
  ELSE IF name \notin DOMAIN c.history
  THEN [ok |-> TRUE, found |-> FALSE, data |-> res]
  ELSE [ok |-> TRUE, found |-> TRUE, data |-> c.history[name]]

\* The loop without the break at the first entry of a greater height.
RECURSIVE ScanExpireNoBreak(_, _, _, _, _)
ScanExpireNoBreak(c, seq, i, nHeight, names) ==
  IF i > Len(seq) THEN [ok |-> TRUE, names |-> names]
  ELSE LET cur == seq[i] IN
    IF ~(cur.nHeight >= nHeight) THEN [ok |-> FALSE, names |-> names]
    ELSE IF c.expireIndex[cur]
    THEN ScanExpireNoBreak(c, seq, i + 1, nHeight, names \cup {cur.name})
    ELSE ScanExpireNoBreak(c, seq, i + 1, nHeight, names \ {cur.name})

\* The loop of updateNamesForHeight over seq[i..], the entries from
\* lower_bound on.  ok is FALSE when the assert in the loop fails.
RECURSIVE ScanExpire(_, _, _, _, _)
ScanExpire(c, seq, i, nHeight, names) ==
  IF i > Len(seq) THEN [ok |-> TRUE, names |-> names]
  ELSE LET cur == seq[i] IN
    IF ~(cur.nHeight >= nHeight) THEN [ok |-> FALSE, names |-> names]
    ELSE IF cur.nHeight > nHeight THEN [ok |-> TRUE, names |-> names]
    ELSE IF c.expireIndex[cur]
    THEN ScanExpire(c, seq, i + 1, nHeight, names \cup {cur.name})
    ELSE ScanExpire(c, seq, i + 1, nHeight, names \ {cur.name})

\* The scan starting from the smallest one-byte name instead of the empty
\* name: the entry of the empty name at nHeight lies before the start.
updateNamesForHeightSeeksByte(c, nHeight, names) ==
  LET seekEntry == ExpireEntry(nHeight, <<0>>)
      from == {k \in DOMAIN c.expireIndex : ~ExpireLess(k, seekEntry)}
  IN  ScanExpire(c, ExpireOrder(from), 1, nHeight, names)

\* CNameCache::updateNamesForHeight
updateNamesForHeight(c, nHeight, names) ==
  LET seekEntry == ExpireEntry(nHeight, << >>)
      from == {k \in DOMAIN c.expireIndex : ~ExpireLess(k, seekEntry)}
  IN  ScanExpire(c, ExpireOrder(from), 1, nHeight, names)

\* set without the removal of the "deleted" mark.
setKeepsDeleted(c, name, data) ==
  [c EXCEPT !.entries = MapPut(c.entries, name, data)]

\* CNameCache::set
set(c, name, data) ==
  LET del == IF name \in c.deleted THEN c.deleted \ {name} ELSE c.deleted
      ent == IF name \in DOMAIN c.entries
             THEN [c.entries EXCEPT ![name] = data]
             ELSE MapPut(c.entries, name, data)
  IN  [c EXCEPT !.deleted = del, !.entries = ent]

\* setHistory with the assert placed after the store: the log is written
\* before the flag is looked at.
setHistoryAssertsLate(c, name, data) ==
  [ok |-> fNameHistory,
   cache |-> [c EXCEPT !.history = MapPut(c.history, name, data)]]

\* setHistory without the assert on fNameHistory.
setHistoryUnchecked(c, name, data) ==
  [ok |-> TRUE, cache |-> [c EXCEPT !.history = MapPut(c.history, name, data)]]

\* CNameCache::setHistory: ok is FALSE when the assert fails.
setHistory(c, name, data) ==
  IF ~fNameHistory THEN [ok |-> FALSE, cache |-> c]
  ELSE [ok |-> TRUE,
        cache |-> [c EXCEPT !.history =
                     IF name \in DOMAIN c.history
                     THEN [c.history EXCEPT ![name] = data]
                     ELSE MapPut(c.history, name, data)]]

\* remove erasing the entry without marking the name deleted.
removeErasesOnly(c, name) ==
  [c EXCEPT !.entries = MapErase(c.entries, name)]

\* remove without the erase from entries.
removeKeepsEntry(c, name) ==
  [c EXCEPT !.deleted = c.deleted \cup {name}]

\* remove erasing every entry instead of the one found.
removeClearsEntries(c, name) ==
  [c EXCEPT !.entries = EmptyMap, !.deleted = c.deleted \cup {name}]

\* CNameCache::remove
remove(c, name) ==
  LET ent == IF name \in DOMAIN c.entries
             THEN MapErase(c.entries, name)
             ELSE c.entries
  IN  [c EXCEPT !.entries = ent, !.deleted = c.deleted \cup {name}]

\* CNameCache::addExpireIndex
addExpireIndex(c, name, height) ==
  [c EXCEPT !.expireIndex = MapPut(c.expireIndex, ExpireEntry(height, name), TRUE)]

\* removeExpireIndex storing the flag of addExpireIndex.
removeExpireIndexStoresTrue(c, name, height) ==
  [c EXCEPT !.expireIndex = MapPut(c.expireIndex, ExpireEntry(height, name), TRUE)]

\* CNameCache::removeExpireIndex
removeExpireIndex(c, name, height) ==
  [c EXCEPT !.expireIndex = MapPut(c.expireIndex, ExpireEntry(height, name), FALSE)]

\* The first loop writing the target's entries map directly, as the fourth
\* loop does for expireIndex, instead of calling cache.set.
RECURSIVE ApplyEntriesRaw(_, _, _, _)
ApplyEntriesRaw(src, seq, i, dst) ==
  IF i > Len(seq) THEN dst
  ELSE ApplyEntriesRaw(src, seq, i + 1,
         [dst EXCEPT !.entries = MapPut(dst.entries, seq[i], src.entries[seq[i]])])

\* First loop of applyTo (CNameCache&): cache.set for entries, in key order.
RECURSIVE ApplyEntries(_, _, _, _)
ApplyEntries(src, seq, i, dst) ==
  IF i > Len(seq) THEN dst
  ELSE ApplyEntries(src, seq, i + 1, set(dst, seq[i], src.entries[seq[i]]))

\* The second loop calling cache.remove only for the names the target holds
\* in entries.
RECURSIVE ApplyDeletedIfPresent(_, _, _)
ApplyDeletedIfPresent(seq, i, dst) ==
  IF i > Len(seq) THEN dst
  ELSE ApplyDeletedIfPresent(seq, i + 1,
         IF seq[i] \in DOMAIN dst.entries THEN remove(dst, seq[i]) ELSE dst)

\* Second loop: cache.remove for deleted, in key order.
RECURSIVE ApplyDeleted(_, _, _)
ApplyDeleted(seq, i, dst) ==
  IF i > Len(seq) THEN dst
  ELSE ApplyDeleted(seq, i + 1, remove(dst, seq[i]))

\* Third loop: cache.setHistory for history; stops at a failed assert.
RECURSIVE ApplyHistory(_, _, _, _)
ApplyHistory(src, seq, i, dst) ==
  IF i > Len(seq) THEN [ok |-> TRUE, cache |-> dst]
  ELSE LET r == setHistory(dst, seq[i], src.history[seq[i]])
       IN  IF ~r.ok THEN r ELSE ApplyHistory(src, seq, i + 1, r.cache)

\* The fourth loop inserting only the keys the target lacks, as
\* std::map::insert does, instead of assigning.
RECURSIVE ApplyExpireInserts(_, _, _, _)
ApplyExpireInserts(src, seq, i, dst) ==
  IF i > Len(seq) THEN dst
  ELSE ApplyExpireInserts(src, seq, i + 1,
         IF seq[i] \in DOMAIN dst.expireIndex THEN dst
         ELSE [dst EXCEPT !.expireIndex =
                 MapPut(dst.expireIndex, seq[i], src.expireIndex[seq[i]])])

\* Fourth loop: cache.expireIndex[key] = flag.
RECURSIVE ApplyExpire(_, _, _, _)
ApplyExpire(src, seq, i, dst) ==
  IF i > Len(seq) THEN dst
  ELSE ApplyExpire(src, seq, i + 1,
         [dst EXCEPT !.expireIndex =
            MapPut(dst.expireIndex, seq[i], src.expireIndex[seq[i]])])

\* applyTo (CNameCache&) without its third loop: the history is not passed
\* on.
applyToCacheSkipsHistory(src, dst) ==
  LET d1 == ApplyEntries(src, NameOrder(DOMAIN src.entries), 1, dst)
      d2 == ApplyDeleted(NameOrder(src.deleted), 1, d1)
  IN  [ok |-> TRUE,
       cache |-> ApplyExpire(src, ExpireOrder(DOMAIN src.expireIndex), 1, d2)]

\* applyTo (CNameCache&) without its second loop: the deletions are not
\* passed on.
applyToCacheSkipsDeleted(src, dst) ==
  LET d1 == ApplyEntries(src, NameOrder(DOMAIN src.entries), 1, dst)
      r3 == ApplyHistory(src, NameOrder(DOMAIN src.history), 1, d1)
  IN  IF ~r3.ok THEN r3
      ELSE [ok |-> TRUE,
            cache |-> ApplyExpire(src, ExpireOrder(DOMAIN src.expireIndex),
                                  1, r3.cache)]

\* CNameCache::applyTo (CNameCache& cache): the target after the call.
applyToCache(src, dst) ==
  LET d1 == ApplyEntries(src, NameOrder(DOMAIN src.entries), 1, dst)
      d2 == ApplyDeleted(NameOrder(src.deleted), 1, d1)
      r3 == ApplyHistory(src, NameOrder(DOMAIN src.history), 1, d2)
  IN  IF ~r3.ok THEN r3
      ELSE [ok |-> TRUE,
            cache |-> ApplyExpire(src, ExpireOrder(DOMAIN src.expireIndex),
                                  1, r3.cache)]

\* trie.Set (key, data, expanded) and trie.Delete (key, expanded) calls.
TrieSet(key, data, expanded) ==
  [op |-> "Set", key |-> key, data |-> data, expanded |-> expanded]

TrieDelete(key, expanded) ==
  [op |-> "Delete", key |-> key, data |-> NoData, expanded |-> expanded]

\* The two loops of applyTo (CUnoTrie&, bool).
RECURSIVE FlushEntries(_, _, _, _)
FlushEntries(c, seq, i, expanded) ==
  IF i > Len(seq) THEN << >>
  ELSE <<TrieSet(seq[i], c.entries[seq[i]], expanded)>>
       \o FlushEntries(c, seq, i + 1, expanded)

RECURSIVE FlushDeleted(_, _, _)
FlushDeleted(seq, i, expanded) ==
  IF i > Len(seq) THEN << >>
  ELSE <<TrieDelete(seq[i], expanded)>> \o FlushDeleted(seq, i + 1, expanded)

\* The flush without its second loop.
applyToTrieSkipsDeleted(c, expanded) ==
  FlushEntries(c, NameOrder(DOMAIN c.entries), 1, expanded)

\* CNameCache::applyTo (CUnoTrie& trie, bool expanded): the calls the trie
\* receives, in the order they are made.
applyToTrie(c, expanded) ==
  FlushEntries(c, NameOrder(DOMAIN c.entries), 1, expanded)
  \o FlushDeleted(NameOrder(c.deleted), 1, expanded)

\* The trie as a map from keys to records: Set stores the record under the
\* key, Delete removes the key.
TrieApply(t, x) ==
  IF x.op = "Set" THEN MapPut(t, x.key, x.data) ELSE MapErase(t, x.key)

\* The trie after the calls seq[i..] in their order.
RECURSIVE TrieRun(_, _, _)
TrieRun(t, seq, i) ==
  IF i > Len(seq) THEN t
  ELSE TrieRun(TrieApply(t, seq[i]), seq, i + 1)

\* The tries a flush can meet: any names, each with any record.
Tries == UNION {[S -> Records] : S \in SUBSET Names}

(* ------------------------------------------------------------------ *)
(* Calls on the cache layers.                                           *)
(* ------------------------------------------------------------------ *)

\* The entries of the call log.
SetCall(name, data) == [op |-> "set", name |-> name, data |-> data]

RemoveCall(name) == [op |-> "remove", name |-> name, data |-> NoData]

\* The calls of a call log made for the name n, in their order.
CallsFor(log, n) == SelectSeq(log, LAMBDA x : x.name = n)

\* How often the call x occurs in a call log.
CountIn(log, x) == Cardinality({i \in DOMAIN log : log[i] = x})

\* The names a layer holds in entries and in deleted.
KeysOf(c) == [entries |-> DOMAIN c.entries, deleted |-> c.deleted]

Call(op, l, name, arg, ret) ==
  [op |-> op, layer |-> l, name |-> name, arg |-> arg,
   pre |-> KeysOf(cache[l]), ret |-> ret]

NoCall ==
  [op |-> "none", layer |-> "child", name |-> << >>, arg |-> NoData,
   pre |-> KeysOf(EmptyCache), ret |-> NoData]

Init ==
  /\ cache = [l \in Layers |-> EmptyCache]
  /\ fNameHistory \in BOOLEAN
  /\ failed = FALSE
  /\ last = NoCall
  /\ nOps = 0
  /\ issued = [l \in Layers |-> [e \in ExpireEntries |-> << >>]]
  /\ calls = [l \in Layers |-> << >>]

\* cache[l].get (name, data) with a default-constructed data.
Get(l, name) ==
  /\ ~failed
  /\ last' = Call("get", l, name, NoData, get(cache[l], name, NoData))
  /\ UNCHANGED <<cache, fNameHistory, failed, nOps, issued, calls>>

\* cache[l].getHistory (name, res) with a default-constructed res.
GetHistory(l, name) ==
  /\ ~failed
  /\ LET r == getHistory(cache[l], name, NoData) IN
       /\ last' = Call("getHistory", l, name, NoData, r)
       /\ failed' = ~r.ok
  /\ UNCHANGED <<cache, fNameHistory, nOps, issued, calls>>

\* cache[l].updateNamesForHeight (nHeight, names)
UpdateNamesForHeight(l, nHeight, names) ==
  /\ ~failed
  /\ LET r == updateNamesForHeight(cache[l], nHeight, names) IN
       /\ last' = Call("updateNamesForHeight", l, << >>,
                       [nHeight |-> nHeight, names |-> names], r)
       /\ failed' = ~r.ok
  /\ UNCHANGED <<cache, fNameHistory, nOps, issued, calls>>

\* cache[l].set (name, data); the call log is kept by the caller.
Set(l, name, data) ==
  /\ ~failed
  /\ cache' = [cache EXCEPT ![l] = set(cache[l], name, data)]
  /\ last' = Call("set", l, name, data, NoData)
  /\ nOps' = nOps + 1
  /\ UNCHANGED <<fNameHistory, failed, issued>>

\* cache[l].setHistory (name, data)
SetHistory(l, name, data) ==
  /\ ~failed
  /\ LET r == setHistory(cache[l], name, data) IN
       /\ cache' = [cache EXCEPT ![l] = r.cache]
       /\ failed' = ~r.ok
       /\ last' = Call("setHistory", l, name, data, r.ok)
  /\ nOps' = nOps + 1
  /\ UNCHANGED <<fNameHistory, issued, calls>>

\* cache[l].remove (name); the call log is kept by the caller.
Remove(l, name) ==
  /\ ~failed
  /\ cache' = [cache EXCEPT ![l] = remove(cache[l], name)]
  /\ last' = Call("remove", l, name, NoData, NoData)
  /\ nOps' = nOps + 1
  /\ UNCHANGED <<fNameHistory, failed, issued>>

\* cache[l].addExpireIndex (name, height); the log of issued calls is kept by
\* the caller.
AddExpireIndex(l, name, height) ==
  /\ ~failed
  /\ cache' = [cache EXCEPT ![l] = addExpireIndex(cache[l], name, height)]
  /\ last' = Call("addExpireIndex", l, name, height, NoData)
  /\ nOps' = nOps + 1
  /\ UNCHANGED <<fNameHistory, failed, calls>>

\* cache[l].removeExpireIndex (name, height); the log of issued calls is kept
\* by the caller.
RemoveExpireIndex(l, name, height) ==
  /\ ~failed
  /\ cache' = [cache EXCEPT ![l] = removeExpireIndex(cache[l], name, height)]
  /\ last' = Call("removeExpireIndex", l, name, height, NoData)
  /\ nOps' = nOps + 1
  /\ UNCHANGED <<fNameHistory, failed, calls>>

\* The merge handing its maps over to the target and leaving the source
\* empty, as a move would.
ApplyToCacheMovesSource(src, dst) ==
  /\ ~failed
  /\ src # dst
  /\ LET r == applyToCache(cache[src], cache[dst]) IN
       /\ cache' = [cache EXCEPT ![dst] = r.cache, ![src] = EmptyCache]
       /\ failed' = ~r.ok
       /\ last' = Call("applyToCache", dst, << >>, src, r.ok)
  /\ UNCHANGED <<fNameHistory, nOps, issued, calls>>

\* cache[src].applyTo (cache[dst]): the layer merge.
ApplyToCache(src, dst) ==
  /\ ~failed
  /\ src # dst
  /\ LET r == applyToCache(cache[src], cache[dst]) IN
       /\ cache' = [cache EXCEPT ![dst] = r.cache]
       /\ failed' = ~r.ok
       /\ last' = Call("applyToCache", dst, << >>, src, r.ok)
  /\ UNCHANGED <<fNameHistory, nOps, issued, calls>>

\* cache[l].applyTo (trie, expanded): the terminal flush.
ApplyToTrie(l, expanded) ==
  /\ ~failed
  /\ last' = Call("applyToTrie", l, << >>, expanded,
                  applyToTrie(cache[l], expanded))
  /\ UNCHANGED <<cache, fNameHistory, failed, nOps, issued, calls>>

\* cache[l].applyTo (trie, expanded) on a trie holding the map trie: the
\* calls made and the trie after them.
ApplyToTrieMap(l, trie, expanded) ==
  /\ ~failed
  /\ LET seq == applyToTrie(cache[l], expanded) IN
       last' = Call("applyToTrieMap", l, << >>,
                    [trie |-> trie, expanded |-> expanded],
                    [calls |-> seq, trie |-> TrieRun(trie, seq, 1),
                     threw |-> FALSE])
  /\ UNCHANGED <<cache, fNameHistory, failed, nOps, issued, calls>>

\* cache[l].applyTo (trie, expanded) where the trie throws from the k-th call
\* it receives: applyTo catches nothing, so the loops end there, the calls
\* made before stay applied and the exception reaches the caller.
ApplyToTrieThrows(l, trie, expanded, k) ==
  /\ ~failed
  /\ LET seq == applyToTrie(cache[l], expanded) IN
       /\ k \in 1..Len(seq)
       /\ last' = Call("applyToTrieThrows", l, << >>,
                       [trie |-> trie, expanded |-> expanded],
                       [calls |-> SubSeq(seq, 1, k),
                        trie |-> TrieRun(trie, SubSeq(seq, 1, k - 1), 1),
                        threw |-> TRUE])
  /\ UNCHANGED <<cache, fNameHistory, failed, nOps, issued, calls>>

\* The layer is discarded and a new, empty one is constructed in its place.
NewCache(l) ==
  /\ ~failed
  /\ cache[l] # EmptyCache
  /\ cache' = [cache EXCEPT ![l] = EmptyCache]
  /\ last' = Call("new", l, << >>, NoData, NoData)
  /\ issued' = [issued EXCEPT ![l] = [e \in ExpireEntries |-> << >>]]
  /\ calls' = [calls EXCEPT ![l] = << >>]
  /\ UNCHANGED <<fNameHistory, failed, nOps>>

\* The mutating calls a caller can make on a layer, as call records; data is
\* the record, the log or the height of the call.
MutCalls ==
  {SetCall(n, d) : n \in Names, d \in Records}
  \cup {RemoveCall(n) : n \in Names}
  \cup {[op |-> o, name |-> n, data |-> h] :
          o \in {"addExpireIndex", "removeExpireIndex"},
          n \in Names, h \in EdgeHeights}

\* The setHistory calls a caller can make on a layer.
HistoryCalls ==
  {[op |-> "setHistory", name |-> n, data |-> d] : n \in Names, d \in Logs}

\* The layer c after the call x, and whether the call returned.
Apply(c, x) ==
  CASE x.op = "set" -> [ok |-> TRUE, cache |-> set(c, x.name, x.data)]
    [] x.op = "remove" -> [ok |-> TRUE, cache |-> remove(c, x.name)]
    [] x.op = "setHistory" -> setHistory(c, x.name, x.data)
    [] x.op = "addExpireIndex" ->
         [ok |-> TRUE, cache |-> addExpireIndex(c, x.name, x.data)]
    [] x.op = "removeExpireIndex" ->
         [ok |-> TRUE, cache |-> removeExpireIndex(c, x.name, x.data)]

\* The caller makes the call x on every layer of L, one layer after the
\* other.
CallOn(L, x) ==
  /\ ~failed
  /\ LET r == [l \in L |-> Apply(cache[l], x)] IN
       /\ cache' = [l \in Layers |-> IF l \in L THEN r[l].cache ELSE cache[l]]
       /\ failed' = \E l \in L : ~r[l].ok
  /\ last' = [NoCall EXCEPT !.op = x.op, !.name = x.name, !.arg = x.data]
  /\ nOps' = nOps + 1
  /\ UNCHANGED <<fNameHistory, issued, calls>>

\* The caller makes one of the mutating calls on every layer of L.
CallAnyOn(L) ==
  \/ \E x \in MutCalls : CallOn(L, x)
  \/ \E x \in HistoryCalls : CallOn(L, x)

\* The caller notes a set / remove call made on layer l.
Log(l, x) == calls' = [calls EXCEPT ![l] = Append(@, x)]

\* The caller notes an addExpireIndex / removeExpireIndex call made on layer l.
Issue(l, name, height, x) ==
  issued' = [issued EXCEPT ![l][ExpireEntry(height, name)] = Append(@, x)]

(* ------------------------------------------------------------------ *)
(* Spec: one cache object, every method but the merge and the scan of   *)
(* the expiration index.  No call log is kept.                          *)
(* ------------------------------------------------------------------ *)

Next ==
  \/ \E n \in Names : Get("child", n)
  \/ \E n \in Names : GetHistory("child", n)
  \/ /\ nOps < MaxOps
     /\ \E n \in Names, d \in Records : Set("child", n, d)
     /\ UNCHANGED calls
  \/ nOps < MaxOps /\ \E n \in Names, d \in Logs : SetHistory("child", n, d)
  \/ /\ nOps < MaxOps
     /\ \E n \in Names : Remove("child", n)
     /\ UNCHANGED calls
  \/ /\ nOps < MaxOps
     /\ \E n \in Names, h \in EdgeHeights : AddExpireIndex("child", n, h)
     /\ UNCHANGED issued
  \/ /\ nOps < MaxOps
     /\ \E n \in Names, h \in EdgeHeights : RemoveExpireIndex("child", n, h)
     /\ UNCHANGED issued
  \/ \E e \in BOOLEAN : ApplyToTrie("child", e)

Spec == Init /\ [][Next]_vars

(* ------------------------------------------------------------------ *)
(* SpecLayers: a working layer is filled, folded into its parent with   *)
(* applyTo, discarded and replaced by a new one.                        *)
(* ------------------------------------------------------------------ *)

NextLayers ==
  \/ /\ nOps < MaxLayerOps
     /\ \E n \in Names, d \in Records :
          Set("child", n, d) /\ Log("child", SetCall(n, d))
  \/ nOps < MaxLayerOps
     /\ \E n \in Names, d \in Logs : SetHistory("child", n, d)
  \/ /\ nOps < MaxLayerOps
     /\ \E n \in Names : Remove("child", n) /\ Log("child", RemoveCall(n))
  \/ /\ nOps < MaxLayerOps
     /\ \E n \in Names, h \in EdgeHeights : AddExpireIndex("child", n, h)
     /\ UNCHANGED issued
  \/ /\ nOps < MaxLayerOps
     /\ \E n \in Names, h \in EdgeHeights : RemoveExpireIndex("child", n, h)
     /\ UNCHANGED issued
  \/ ApplyToCache("child", "parent")
  \/ NewCache("child")

SpecLayers == Init /\ [][NextLayers]_vars

(* ------------------------------------------------------------------ *)
(* SpecExpire: the expiration index of one layer and its scan.          *)
(* ------------------------------------------------------------------ *)

NextExpire ==
  \/ /\ nOps < MaxExpireOps
     /\ \E n \in Names, h \in Heights :
          AddExpireIndex("child", n, h) /\ Issue("child", n, h, "add")
  \/ /\ nOps < MaxExpireOps
     /\ \E n \in Names, h \in Heights :
          RemoveExpireIndex("child", n, h) /\ Issue("child", n, h, "remove")
  \/ \E h \in Heights, S \in SUBSET Names : UpdateNamesForHeight("child", h, S)

SpecExpire == Init /\ [][NextExpire]_vars

(* ------------------------------------------------------------------ *)
(* SpecOrder: two layers are built from the same set / remove calls in  *)
(* different orders and each is flushed to its own trie.  The calls are *)
(* made on the first layer, then replayed on the second in any order.   *)
(* ------------------------------------------------------------------ *)

\* The second layer has not yet received the call x as often as the first.
Replayable(x) == CountIn(calls["parent"], x) < CountIn(calls["child"], x)

NextOrder ==
  \/ /\ Len(calls["child"]) < MaxMuts
     /\ calls["parent"] = << >>
     /\ \E n \in Names, d \in Records :
          Set("child", n, d) /\ Log("child", SetCall(n, d))
  \/ /\ Len(calls["child"]) < MaxMuts
     /\ calls["parent"] = << >>
     /\ \E n \in Names : Remove("child", n) /\ Log("child", RemoveCall(n))
  \/ \E n \in Names, d \in Records :
       /\ Replayable(SetCall(n, d))
       /\ Set("parent", n, d) /\ Log("parent", SetCall(n, d))
  \/ \E n \in Names :
       /\ Replayable(RemoveCall(n))
       /\ Remove("parent", n) /\ Log("parent", RemoveCall(n))
  \/ \E l \in Layers, e \in BOOLEAN : ApplyToTrie(l, e)

SpecOrder == Init /\ [][NextOrder]_vars

(* ------------------------------------------------------------------ *)
(* SpecMerge: both layers are mutated by the caller, before and after   *)
(* the working layer is merged into the layer below it.                 *)
(* ------------------------------------------------------------------ *)

\* The layers the caller mutates in SpecMerge.
MergeLayers == {"child", "parent"}

NextMerge ==
  \/ /\ nOps < MaxLayerOps
     /\ \E l \in MergeLayers, n \in Names, d \in Records :
          Set(l, n, d) /\ Log(l, SetCall(n, d))
  \/ /\ nOps < MaxLayerOps
     /\ \E l \in MergeLayers, n \in Names, d \in Logs : SetHistory(l, n, d)
  \/ /\ nOps < MaxLayerOps
     /\ \E l \in MergeLayers, n \in Names :
          Remove(l, n) /\ Log(l, RemoveCall(n))
  \/ /\ nOps < MaxLayerOps
     /\ \E l \in MergeLayers, n \in Names, h \in EdgeHeights :
          AddExpireIndex(l, n, h) /\ Issue(l, n, h, "add")
  \/ /\ nOps < MaxLayerOps
     /\ \E l \in MergeLayers, n \in Names, h \in EdgeHeights :
          RemoveExpireIndex(l, n, h) /\ Issue(l, n, h, "remove")
  \/ ApplyToCache("child", "parent")

SpecMerge == Init /\ [][NextMerge]_vars

(* ------------------------------------------------------------------ *)
(* SpecFlush: one layer is filled and then flushed into a trie of any    *)
(* content, the trie working or failing on one of the calls.            *)
(* ------------------------------------------------------------------ *)

\* The calls one flush can make at most: one per name.
MaxCalls == Cardinality(Names)

\* The layer has been flushed: the flush is the last call of its life.
Flushed == last.op \in {"applyToTrieMap", "applyToTrieThrows"}

NextFlush ==
  \/ /\ nOps < MaxOps /\ ~Flushed
     /\ \E n \in Names, d \in Records : Set("child", n, d)
     /\ UNCHANGED calls
  \/ /\ nOps < MaxOps /\ ~Flushed
     /\ \E n \in Names : Remove("child", n)
     /\ UNCHANGED calls
  \/ /\ ~Flushed
     /\ \E t \in Tries, e \in BOOLEAN : ApplyToTrieMap("child", t, e)
  \/ /\ ~Flushed
     /\ \E t \in Tries, e \in BOOLEAN, k \in 1..MaxCalls :
          ApplyToTrieThrows("child", t, e, k)

SpecFlush == Init /\ [][NextFlush]_vars

(* ------------------------------------------------------------------ *)
(* SpecReplay: "parent" and "twin" are given the same calls; then a     *)
(* sequence of calls is made on the empty "child" and, call by call,    *)
(* on "twin"; then "child" is merged into "parent".                     *)
(* ------------------------------------------------------------------ *)

\* The last call was the merge of src into dst.
Merged(src, dst) ==
  last.op = "applyToCache" /\ last.arg = src /\ last.layer = dst

NextReplay ==
  \/ /\ nOps < MaxOps
     /\ cache["child"] = EmptyCache
     /\ last.op # "applyToCache"
     /\ CallAnyOn({"parent", "twin"})
  \/ /\ nOps < MaxOps
     /\ last.op # "applyToCache"
     /\ CallAnyOn({"child", "twin"})
  \/ last.op # "applyToCache" /\ ApplyToCache("child", "parent")

SpecReplay == Init /\ [][NextReplay]_vars

(* ------------------------------------------------------------------ *)
(* SpecStack: three stacked layers, "parent" below "child" below "top", *)
(* and "twin" holding what "parent" holds.  "child" then "top" are      *)
(* merged into "twin"; "top" is merged into "child" and "child" into    *)
(* "parent".                                                            *)
(* ------------------------------------------------------------------ *)

\* The calls made on the layers of SpecStack: the expiration calls at the
\* lowest height and the setHistory calls with a log that is not empty.
StackCalls ==
  {x \in MutCalls :
     x.op \in {"addExpireIndex", "removeExpireIndex"} => x.data = 1}

StackHistoryCalls == {x \in HistoryCalls : x.data # << >>}

\* The caller makes one of these calls on every layer of L.
StackCallOn(L) ==
  \/ \E x \in StackCalls : CallOn(L, x)
  \/ \E x \in StackHistoryCalls : CallOn(L, x)

NextStack ==
  \/ /\ nOps < MaxOps
     /\ cache["child"] = EmptyCache /\ cache["top"] = EmptyCache
     /\ last.op # "applyToCache"
     /\ StackCallOn({"parent", "twin"})
  \/ /\ nOps < MaxOps
     /\ cache["top"] = EmptyCache
     /\ last.op # "applyToCache"
     /\ StackCallOn({"child"})
  \/ /\ nOps < MaxOps
     /\ last.op # "applyToCache"
     /\ StackCallOn({"top"})
  \/ last.op # "applyToCache" /\ ApplyToCache("child", "twin")
  \/ Merged("child", "twin") /\ ApplyToCache("top", "twin")
  \/ Merged("top", "twin") /\ ApplyToCache("top", "child")
  \/ Merged("top", "child") /\ ApplyToCache("child", "parent")

SpecStack == Init /\ [][NextStack]_vars

(* ------------------------------------------------------------------ *)
(* Properties.                                                          *)
(* ------------------------------------------------------------------ *)

\* The caller's last two calls on layer l for the name n were set (n, r1)
\* then remove (n).
SetThenRemoved(l, n) ==
  LET log == CallsFor(calls[l], n)
  IN  /\ Len(log) >= 2
      /\ log[Len(log) - 1].op = "set"
      /\ log[Len(log)].op = "remove"

\* C1: in every reachable state of every layer, source or target of a
\* merge, no name is both a key of entries and a member of deleted.
C1_EntriesDeletedDisjoint ==
  \A l \in Layers : DOMAIN cache[l].entries \cap cache[l].deleted = {}

\* A merge has just moved a name of the parent from entries to deleted, and
\* both layers hold names.
C1_Witness ==
  /\ last.op = "applyToCache"
  /\ last.pre.entries \cap cache["parent"].deleted # {}
  /\ cache["child"].deleted # {}

\* C2: deletion wins on merge.  When the child, on which the caller's last
\* calls for n were set (n, r1) then remove (n), is merged into a parent that
\* held an entry for n, the parent's get (n) reports not found afterwards
\* and n is in the parent's deleted set.
C2_DeletionWinsOnMerge ==
  (last.op = "applyToCache" /\ last.layer = "parent" /\ last.arg = "child")
  => \A n \in Names :
       (n \in last.pre.entries /\ SetThenRemoved("child", n))
       => /\ ~get(cache["parent"], n, NoData).found
          /\ n \in cache["parent"].deleted

\* The merge of C2 has happened: the parent held n, the child was told
\* set (n, r1) then remove (n).
C2_Witness ==
  /\ last.op = "applyToCache"
  /\ \E n \in Names :
       /\ n \in last.pre.entries
       /\ SetThenRemoved("child", n)
       /\ n \in cache["parent"].deleted

\* C8: a step set (n, r) on a layer, from whatever state: afterwards get (n)
\* returns r, n is not in deleted, and for every other name the entry and
\* the deleted mark are as before.
C8_SetPostcondition ==
  [][last'.op = "set" =>
       LET l == last'.layer
           n == last'.name
           r == get(cache'[l], n, NoData)
       IN  /\ r.found /\ r.data = last'.arg
           /\ n \notin cache'[l].deleted
           /\ \A m \in Names \ {n} :
                /\ get(cache'[l], m, NoData) = get(cache[l], m, NoData)
                /\ (m \in cache'[l].deleted) = (m \in cache[l].deleted)]_vars

\* set (n, r) has been called for a name marked deleted, while another name
\* was held by the layer.
C8_Witness ==
  /\ last.op = "set"
  /\ last.name \in last.pre.deleted
  /\ (last.pre.entries \cup last.pre.deleted) \ {last.name} # {}

\* C9: a step remove (n) on a layer, whether or not n is in entries:
\* afterwards get (n) reports not found, n is in deleted, and for every other
\* name the entry and the deleted mark are as before.
C9_RemovePostcondition ==
  [][last'.op = "remove" =>
       LET l == last'.layer
           n == last'.name
       IN  /\ ~get(cache'[l], n, NoData).found
           /\ n \in cache'[l].deleted
           /\ \A m \in Names \ {n} :
                /\ get(cache'[l], m, NoData) = get(cache[l], m, NoData)
                /\ (m \in cache'[l].deleted) = (m \in cache[l].deleted)]_vars

\* remove (n) has been called for a name that had an entry, while another
\* name had an entry too.
C9_Witness ==
  /\ last.op = "remove"
  /\ last.name \in last.pre.entries
  /\ last.pre.entries \ {last.name} # {}

\* The two layers received the same calls, each as often, in some order.
SameMutations ==
  /\ Len(calls["child"]) = Len(calls["parent"])
  /\ \A i \in DOMAIN calls["child"] :
       CountIn(calls["child"], calls["child"][i])
         = CountIn(calls["parent"], calls["child"][i])

\* The two layers received, for every name, the same calls in the same order.
SameOrderPerName ==
  \A n \in Names : CallsFor(calls["child"], n) = CallsFor(calls["parent"], n)

\* The flushes of the two layers issue the same sequence of trie calls.
SameFlush ==
  \A e \in BOOLEAN :
    applyToTrie(cache["child"], e) = applyToTrie(cache["parent"], e)

\* C3 as claimed: two layers built from the same mutations, in whatever call
\* orders, issue identical sequences of trie calls when flushed.
C3_SameMutationsSameFlush == SameMutations => SameFlush

\* C3, amended: two layers built from the same mutations in different call
\* orders that agree, for every name, on the order of the calls made for that
\* name issue identical sequences of trie calls when flushed.
C3_SameOrderPerNameSameFlush ==
  (SameMutations /\ SameOrderPerName) => SameFlush

\* The second layer, built from the calls of the first in another order, has
\* been flushed and has issued the calls the first issues, a Set and a
\* Delete among them.
C3_Witness ==
  /\ last.op = "applyToTrie"
  /\ last.layer = "parent"
  /\ SameMutations /\ SameOrderPerName
  /\ calls["child"] # calls["parent"]
  /\ last.ret = applyToTrie(cache["child"], last.arg)
  /\ Len(last.ret) >= 2

\* C4 as claimed: in the calls of one flush, each call's key is greater than
\* the key of the call before it.
C4_FlushKeysAscending ==
  last.op = "applyToTrie"
  => \A i \in 1..(Len(last.ret) - 1) :
       NameLess(last.ret[i].key, last.ret[i + 1].key)

\* C4, amended: one flush issues its Set calls first, in ascending key
\* order, then its Delete calls, in ascending key order.
C4_FlushAscendingPerLoop ==
  last.op = "applyToTrie"
  => \A i \in 1..(Len(last.ret) - 1) :
       /\ ~(last.ret[i].op = "Delete" /\ last.ret[i + 1].op = "Set")
       /\ last.ret[i].op = last.ret[i + 1].op
          => NameLess(last.ret[i].key, last.ret[i + 1].key)

\* A flush has issued two calls of the same kind.
C4_Witness ==
  /\ last.op = "applyToTrie"
  /\ Len(last.ret) >= 2
  /\ last.ret[1].op = last.ret[2].op

\* The last call issued for an expiration entry, "none" when there is none.
LastIssued(l, h, n) ==
  LET s == issued[l][ExpireEntry(h, n)]
  IN  IF s = << >> THEN "none" ELSE s[Len(s)]

\* C5: the last of addExpireIndex / removeExpireIndex issued for (h, n)
\* decides whether updateNamesForHeight (h, S) inserts n into an empty S: the
\* result holds exactly the names whose last call at h was addExpireIndex, so
\* after add then remove for n alone it is empty.
C5_ExpireToggle ==
  (last.op = "updateNamesForHeight" /\ last.arg.names = {})
  => /\ last.ret.ok
     /\ last.ret.names =
          {n \in Names : LastIssued(last.layer, last.arg.nHeight, n) = "add"}

\* updateNamesForHeight (h, {}) has returned the empty set after
\* addExpireIndex (n, h) then removeExpireIndex (n, h).
C5_Witness ==
  /\ last.op = "updateNamesForHeight"
  /\ last.arg.names = {}
  /\ last.ret.names = {}
  /\ \E n \in Names :
       issued[last.layer][ExpireEntry(last.arg.nHeight, n)] = <<"add", "remove">>

\* C6: height isolation.  updateNamesForHeight (h, S) inserts a name only
\* when the last call issued for it at height h was addExpireIndex, erases a
\* name only when that call was removeExpireIndex, whatever was recorded at
\* lower or higher heights, and the assert of the scan does not fail.
C6_HeightIsolation ==
  last.op = "updateNamesForHeight"
  => /\ last.ret.ok
     /\ \A n \in Names :
          /\ (n \in last.ret.names /\ n \notin last.arg.names)
             => LastIssued(last.layer, last.arg.nHeight, n) = "add"
          /\ (n \notin last.ret.names /\ n \in last.arg.names)
             => LastIssued(last.layer, last.arg.nHeight, n) = "remove"

\* A call for a height with nothing recorded has left a fresh set empty while
\* a name was recorded at a lower and at a higher height.
C6_Witness ==
  /\ last.op = "updateNamesForHeight"
  /\ last.arg.names = {}
  /\ last.ret.names = {}
  /\ \E n \in Names, lo \in Heights, hi \in Heights :
       /\ lo < last.arg.nHeight /\ last.arg.nHeight < hi
       /\ LastIssued(last.layer, lo, n) = "add"
       /\ LastIssued(last.layer, hi, n) = "add"

\* C7: history gating.  With the flag disabled a getHistory or setHistory
\* call is fatal and leaves the history map as it was; with it enabled,
\* getHistory (n) right after setHistory (n, log) returns exactly log, and
\* getHistory of a name without a log in the layer returns not found.
C7_HistoryGating ==
  [][LET l == last'.layer
         n == last'.name
     IN  /\ (last'.op \in {"getHistory", "setHistory"} /\ ~fNameHistory)
            => /\ failed'
               /\ cache'[l].history = cache[l].history
         /\ (last'.op = "setHistory" /\ fNameHistory)
            => /\ ~failed'
               /\ getHistory(cache'[l], n, NoData)
                    = [ok |-> TRUE, found |-> TRUE, data |-> last'.arg]
         /\ (last'.op = "getHistory" /\ fNameHistory)
            => /\ ~failed'
               /\ n \notin DOMAIN cache[l].history => ~last'.ret.found]_vars

\* With the flag enabled, a getHistory call made after setHistory (n, log)
\* with a non-empty log has returned that log.
C7_Witness ==
  /\ last.op = "getHistory"
  /\ fNameHistory
  /\ ~failed
  /\ last.ret.found
  /\ last.ret.data = <<1>>

\* C10: a flush issues exactly one trie Set per name of entries, with its
\* record, and one trie Delete per name of deleted, each with the caller's
\* expanded flag, and no other call (none for a key that only history or
\* expireIndex holds); the layer is unchanged.
C10_FlushExact ==
  [][last'.op = "applyToTrie" =>
       LET c == cache[last'.layer]
           e == last'.arg
           t == last'.ret
       IN  /\ cache' = cache
           /\ Len(t) = Cardinality(DOMAIN c.entries) + Cardinality(c.deleted)
           /\ \A i \in DOMAIN t : t[i].key \in DOMAIN c.entries \cup c.deleted
           /\ \A n \in DOMAIN c.entries :
                /\ Cardinality({i \in DOMAIN t : t[i].key = n}) = 1
                /\ \E i \in DOMAIN t : t[i] = TrieSet(n, c.entries[n], e)
           /\ \A n \in c.deleted :
                /\ Cardinality({i \in DOMAIN t : t[i].key = n}) = 1
                /\ \E i \in DOMAIN t : t[i] = TrieDelete(n, e)]_vars

\* A flush has issued calls from a layer that holds a history key and an
\* expiration entry for a name it neither sets nor deletes.
C10_Witness ==
  /\ last.op = "applyToTrie"
  /\ Len(last.ret) >= 1
  /\ LET c == cache[last.layer]
         k == DOMAIN c.entries \cup c.deleted
     IN  /\ DOMAIN c.history \ k # {}
         /\ \E x \in DOMAIN c.expireIndex : x.name \notin k

\* The calls that mutate the layer they are made on.
MutatingOps ==
  {"set", "remove", "setHistory", "addExpireIndex", "removeExpireIndex"}

\* C11: layers never alias.  A merge leaves the source layer as it was and,
\* in the target, leaves the entry and the deleted mark of every name that
\* is neither in the source's entries nor in its deleted set; a mutating
\* call on one layer, before or after a merge, leaves every other layer as
\* it was.
C11_LayersNeverAlias ==
  [][/\ last'.op = "applyToCache" =>
          LET src == last'.arg
              dst == last'.layer
          IN  /\ cache'[src] = cache[src]
              /\ \A n \in Names \ (DOMAIN cache[src].entries
                                     \cup cache[src].deleted) :
                   /\ get(cache'[dst], n, NoData) = get(cache[dst], n, NoData)
                   /\ (n \in cache'[dst].deleted) = (n \in cache[dst].deleted)
     /\ last'.op \in MutatingOps =>
          \A l \in Layers \ {last'.layer} : cache'[l] = cache[l]]_vars

\* After a merge gave the parent the child's record for a name, the child
\* has been given another record for it and the parent still holds the
\* merged one.
C11_Witness ==
  /\ last.op = "set"
  /\ last.layer = "child"
  /\ calls["parent"] = << >>
  /\ last.name \in DOMAIN cache["parent"].entries
  /\ cache["parent"].entries[last.name] # last.arg
  /\ cache["child"].entries[last.name] = last.arg

\* The trie after every call of the flush of layer c was applied to t.
FlushedTrie(c, t, expanded) == TrieRun(t, applyToTrie(c, expanded), 1)

\* C12: a flush is all-or-nothing.  When the trie fails on one of the calls
\* of a flush, the failure reaches the caller and the trie holds either all
\* of the layer's sets and deletes or none of them.
C12_FlushAllOrNothing ==
  last.op = "applyToTrieThrows"
  => /\ last.ret.threw
     /\ \/ last.ret.trie = last.arg.trie
        \/ last.ret.trie
             = FlushedTrie(cache[last.layer], last.arg.trie, last.arg.expanded)

\* The names with an entry at height h in the index of layer c whose flag
\* is flag.
FlaggedAt(c, h, flag) ==
  {n \in Names : /\ ExpireEntry(h, n) \in DOMAIN c.expireIndex
                 /\ c.expireIndex[ExpireEntry(h, n)] = flag}

\* C13: updateNamesForHeight (h, S), for every layer state, height and set
\* S: afterwards S is (S before, plus the names whose entry at h is true)
\* minus the names whose entry at h is false, the empty name included, and
\* the layer is as it was.
C13_ScanResult ==
  [][last'.op = "updateNamesForHeight" =>
       LET c == cache[last'.layer]
           h == last'.arg.nHeight
           S == last'.arg.names
       IN  /\ last'.ret.ok
           /\ last'.ret.names
                = (S \cup FlaggedAt(c, h, TRUE)) \ FlaggedAt(c, h, FALSE)
           /\ cache' = cache]_vars

\* A scan has erased the empty name from the caller's set and inserted
\* another name into it.
C13_Witness ==
  /\ last.op = "updateNamesForHeight"
  /\ << >> \in last.arg.names
  /\ << >> \notin last.ret.names
  /\ last.ret.names \ last.arg.names # {}

\* C14: the merge of the expiration index is a per-key overwrite.  After
\* applyTo the target holds, for every key of the source's index, the
\* source's flag, so that a key cancelled in the source is erased by the
\* target's updateNamesForHeight whatever the target held for it; every
\* other key of the target keeps its flag, and no key leaves the target's
\* index.
C14_ExpireMergeOverwrites ==
  [][last'.op = "applyToCache" =>
       LET src == cache[last'.arg].expireIndex
           old == cache[last'.layer].expireIndex
           new == cache'[last'.layer].expireIndex
       IN  /\ DOMAIN new = DOMAIN old \cup DOMAIN src
           /\ \A k \in DOMAIN src : new[k] = src[k]
           /\ \A k \in DOMAIN old \ DOMAIN src : new[k] = old[k]
           /\ \A k \in DOMAIN src :
                ~src[k] =>
                  k.name \notin updateNamesForHeight(cache'[last'.layer],
                                                     k.nHeight, Names).names]_vars

\* A merge has cancelled in the parent an entry the parent had added: the
\* child's removeExpireIndex overwrote the parent's addExpireIndex.
C14_Witness ==
  /\ last.op = "applyToCache"
  /\ \E k \in DOMAIN cache["child"].expireIndex :
       /\ issued["parent"][k] = <<"add">>
       /\ issued["child"][k] = <<"remove">>
       /\ cache["parent"].expireIndex[k] = FALSE

\* C15: merge equals replay.  For every parent state and every sequence of
\* set, remove, setHistory, addExpireIndex and removeExpireIndex calls,
\* making the calls on an empty child and merging the child into the parent
\* leaves the parent in the state (entries, deleted, history, expireIndex)
\* that making the same calls on the parent itself gives.
C15_MergeEqualsReplay ==
  Merged("child", "parent") => cache["parent"] = cache["twin"]

\* A child on which a name was set and another removed has been merged into
\* a parent that held keys of its own, and the parent is in the state of the
\* replay.
C15_Witness ==
  /\ Merged("child", "parent")
  /\ ~failed
  /\ DOMAIN cache["child"].entries # {}
  /\ cache["child"].deleted # {}
  /\ DOMAIN cache["parent"].expireIndex \ DOMAIN cache["child"].expireIndex # {}
  /\ cache["parent"] = cache["twin"]

\* C16: stacked merges are associative.  Merging the top layer into the
\* middle one and then the middle one into the bottom one leaves the bottom
\* layer in the state that merging the middle layer and then the top layer
\* into it gives.
C16_MergeAssociative ==
  Merged("child", "parent")
  => \A f \in {"entries", "deleted", "history", "expireIndex"} :
       cache["parent"][f] = cache["twin"][f]

\* The four merges have been made with each of the three layers holding
\* something the layer above it did not bring, and both orders agree.
C16_Witness ==
  /\ Merged("child", "parent")
  /\ ~failed
  /\ cache["top"] # EmptyCache
  /\ cache["child"] # cache["top"]
  /\ cache["parent"] # cache["child"]
  /\ cache["parent"].deleted # {}
  /\ cache["parent"] = cache["twin"]

\* The old trie t with every deleted name of layer c absent and every name
\* of its entries mapped to its record.
ExpectedTrie(c, t) ==
  [n \in (DOMAIN t \ c.deleted) \cup DOMAIN c.entries |->
     IF n \in DOMAIN c.entries THEN c.entries[n] ELSE t[n]]

\* The calls of a flush with the deletes issued before the sets.
DeletesFirst(c, expanded) ==
  FlushDeleted(NameOrder(c.deleted), 1, expanded)
  \o FlushEntries(c, NameOrder(DOMAIN c.entries), 1, expanded)

\* The calls of a flush with sets and deletes interleaved in key order.
RECURSIVE InKeyOrder(_, _, _, _)
InKeyOrder(c, seq, i, expanded) ==
  IF i > Len(seq) THEN << >>
  ELSE (IF seq[i] \in DOMAIN c.entries
        THEN <<TrieSet(seq[i], c.entries[seq[i]], expanded)>> ELSE << >>)
       \o (IF seq[i] \in c.deleted
           THEN <<TrieDelete(seq[i], expanded)>> ELSE << >>)
       \o InKeyOrder(c, seq, i + 1, expanded)

\* C17: the trie after a flush does not depend on the sets coming before the
\* deletes.  Each key receives at most one call; the flushed trie is the old
\* trie with every deleted name absent and every entries name mapped to its
\* record, and is the same when the deletes are issued before the sets or
\* interleaved with them in key order.
C17_FlushOrderIrrelevant ==
  last.op = "applyToTrieMap"
  => LET c == cache[last.layer]
         t == last.arg.trie
         e == last.arg.expanded
         seq == last.ret.calls
     IN  /\ \A i, j \in DOMAIN seq : seq[i].key = seq[j].key => i = j
         /\ last.ret.trie = ExpectedTrie(c, t)
         /\ TrieRun(t, DeletesFirst(c, e), 1) = last.ret.trie
         /\ TrieRun(t, InKeyOrder(c, NameOrder(DOMAIN c.entries \cup c.deleted),
                                  1, e), 1) = last.ret.trie

\* A flush with a Set and a Delete has changed a trie that held the deleted
\* name and another record for the name set.
C17_Witness ==
  /\ last.op = "applyToTrieMap"
  /\ \E n \in cache[last.layer].deleted : n \in DOMAIN last.arg.trie
  /\ \E n \in DOMAIN cache[last.layer].entries :
       /\ n \in DOMAIN last.arg.trie
       /\ last.arg.trie[n] # cache[last.layer].entries[n]
  /\ last.ret.trie = ExpectedTrie(cache[last.layer], last.arg.trie)

\* The names a layer overrides: those in its entries or in its deleted set.
Overridden(c) == DOMAIN c.entries \cup c.deleted

\* C18: a layer never forgets an override.  Along every sequence of set,
\* remove, setHistory, addExpireIndex, removeExpireIndex and merges into the
\* layer, the names in entries or deleted, the keys of history and the keys
\* of expireIndex only grow; a name once set or removed is in exactly one of
\* entries and deleted after every later step, and a flush issues a call
\* for it.
C18_OverridesOnlyGrow ==
  [][\A l \in Layers :
       /\ Overridden(cache[l]) \subseteq Overridden(cache'[l])
       /\ DOMAIN cache[l].history \subseteq DOMAIN cache'[l].history
       /\ DOMAIN cache[l].expireIndex \subseteq DOMAIN cache'[l].expireIndex
       /\ \A n \in Overridden(cache[l]) :
            /\ (n \in DOMAIN cache'[l].entries) # (n \in cache'[l].deleted)
            /\ \E i \in DOMAIN applyToTrie(cache'[l], TRUE) :
                 applyToTrie(cache'[l], TRUE)[i].key = n]_vars

\* A merge has moved a name the parent had set from the parent's entries to
\* its deleted set, and a flush of the parent deletes the name in the trie.
C18_Witness ==
  /\ last.op = "applyToCache"
  /\ \E n \in last.pre.entries :
       /\ n \notin DOMAIN cache["parent"].entries
       /\ TrieDelete(n, TRUE) \in
            {applyToTrie(cache["parent"], TRUE)[i] :
               i \in DOMAIN applyToTrie(cache["parent"], TRUE)}

\* C19: with the flag fixed at start a merge never hits the assert of
\* setHistory.  While the flag is disabled the history map of every layer
\* is empty, so that the merge makes no setHistory call; every merge made
\* has returned, and every merge that can be made from the state returns.
C19_MergeNeverFatal ==
  /\ ~fNameHistory => \A l \in Layers : DOMAIN cache[l].history = {}
  /\ last.op = "applyToCache" => (last.ret = TRUE /\ ~failed)
  /\ \A src \in Layers, dst \in Layers :
       src # dst => applyToCache(cache[src], cache[dst]).ok

\* With the flag disabled a child holding an entry and an expiration entry
\* has been merged into the parent, and the merge has returned.
C19_Witness ==
  /\ ~fNameHistory
  /\ last.op = "applyToCache"
  /\ last.ret = TRUE
  /\ DOMAIN cache["child"].entries # {}
  /\ DOMAIN cache["child"].expireIndex # {}
  /\ DOMAIN cache["child"].entries \subseteq DOMAIN cache["parent"].entries

====
